---- MODULE Spec2Model ----
(***************************************************************************)
(* Model of cpp/watchdog/server/src/UidProcStatsCollector.cpp: the per-UID *)
(* process statistics collector of the car watchdog daemon.                *)
(*                                                                         *)
(* uint64_t is modelled as an unsigned integer of WordBits bits: plain     *)
(* +, - and * wrap modulo 2^WordBits, addUint64 and mul clamp at           *)
(* kMaxUint64.  A file of procfs is modelled by the outcome of reading and *)
(* tokenising it: "missing" (ReadFileToString fails), "garbled" (readable  *)
(* but not of the expected format) or "ok" with the parsed fields.         *)
(***************************************************************************)
EXTENDS Integers, Sequences, FiniteSets, TLC

VARIABLES
    mIsEnabled,             \* UidProcStatsCollector::mIsEnabled
    mIsTimeInStateEnabled,  \* UidProcStatsCollector::mIsTimeInStateEnabled
    mIsMemoryProfilingEnabled, \* set by the constructor from the feature flag
    mIsSmapsRollupSupported,   \* constructor argument
    mLatestStats,           \* uid -> UidProcStats, the latest snapshot
    mDeltaStats,            \* uid -> UidProcStats, the delta snapshot
    prevStats,              \* history: mLatestStats before the last successful collect()
    scanned,                \* history: the procfs contents the last collect() met
    collectResult,          \* history: what the last collect() returned
    numCollects,            \* history: number of collect() calls so far
    probe,                  \* history: what the last init() found under PID_FOR_INIT
    oneTenthCpuCycles,      \* readTimeInStateFile: the running total
    trueOneTenthCycles,     \* history: the same total in unbounded arithmetic
    lastLine,               \* history: the last line folded, with the product and the totals
    numLines,               \* history: number of body lines folded so far
    tisPc,                  \* readTimeInStateFile: position ("lines" | "done")
    tisCycles,              \* readTimeInStateFile: the returned cycles
    statLine,               \* parsePidStatLine: the fields the line was written from
    parsedStat,             \* parsePidStatLine: the result and the PidStat filled in
    statusText,             \* readPidStatusFile: the lines the status file was written from
    statusRead,             \* readPidStatusFile: the result
    mMutex,                 \* UidProcStatsCollector::mMutex: the thread that holds it
    initPc,                 \* position of the thread that calls init()
    collectPc               \* position of the thread that calls collect()

vars == <<mIsEnabled, mIsTimeInStateEnabled, mIsMemoryProfilingEnabled,
          mIsSmapsRollupSupported, mLatestStats, mDeltaStats, prevStats, scanned,
          collectResult, numCollects, probe, oneTenthCpuCycles, trueOneTenthCycles,
          lastLine, numLines, tisPc, tisCycles, statLine, parsedStat,
          statusText, statusRead, mMutex, initPc, collectPc>>

collectorVars == <<mIsEnabled, mIsTimeInStateEnabled, mIsMemoryProfilingEnabled,
                   mIsSmapsRollupSupported, mLatestStats, mDeltaStats, prevStats,
                   scanned, collectResult, numCollects, probe>>

tisVars == <<oneTenthCpuCycles, trueOneTenthCycles, lastLine, numLines, tisPc, tisCycles>>

textVars == <<statLine, parsedStat, statusText, statusRead>>

threadVars == <<mMutex, initPc, collectPc>>

-----------------------------------------------------------------------------
(* Bounds *)

\* Width of the modelled uint64_t.
WordBits == 3
\* PIDs listed under the root directory are 1..MaxPid.
MaxPid == 2
\* TIDs of threads other than the main thread are MaxPid+1..MaxPid+MaxThreads.
MaxThreads == 1
\* collect() is called at most MaxCollects times in a behaviour.
MaxCollects == 2
\* readTimeInStateFile folds at most MaxLines body lines.
MaxLines == 2
\* The comm of a stat line has at most MaxCommLen characters.
MaxCommLen == 3
\* A status file has at most MaxNameLines lines of key Name.
MaxNameLines == 1

-----------------------------------------------------------------------------
(* Constants of the program *)

kMaxUint64 == 2^WordBits - 1

\* sysconf(_SC_CLK_TCK), read by the constructor and by readTimeInStateFile.
ClockTicksPerSecond == 500
mMillisPerClockTick == 1000 \div ClockTicksPerSecond
cyclesPerKHzClockTicks == 1000 \div ClockTicksPerSecond
\* sysconf(_SC_PAGESIZE) / 1024, at least 1.
mPageSizeKb == 2

PID_FOR_INIT == 1

READ_ERROR == 0
READ_WARNING == 1

\* static_cast<uid_t>(-1), the unresolved UID.
InvalidUid == -1

\* uint64_t arithmetic that is not guarded: the result modulo 2^64.
Wrap(x) == x % (kMaxUint64 + 1)

\* An empty std::unordered_map.
EmptyMap == [k \in {} |-> 0]

-----------------------------------------------------------------------------
(* Saturating arithmetic *)

addUint64(l, r) == IF (kMaxUint64 - l) > r THEN l + r ELSE kMaxUint64

mul(l, r) ==
    IF l = 0 \/ r = 0 THEN 0
    ELSE IF (kMaxUint64 \div r) > l THEN l * r ELSE kMaxUint64

-----------------------------------------------------------------------------
(* Results of the file readers: android::base::Result with a ReadStatus code *)

Ok(v) == [ok |-> TRUE, code |-> -1, value |-> v]
Error(c) == [ok |-> FALSE, code |-> c, value |-> <<>>]

\* The body lines of a time_in_state file, folded left to right.
RECURSIVE foldTimeInState(_, _)
foldTimeInState(lines, acc) ==
    IF lines = <<>> THEN acc
    ELSE foldTimeInState(Tail(lines),
                         addUint64(acc, mul(Head(lines).freqKHz, Head(lines).clockTicks)))

readTimeInStateFile(file) ==
    IF file.kind = "missing" THEN Error(READ_WARNING)
    ELSE IF file.kind = "garbled" THEN Error(READ_ERROR)
    ELSE Ok(mul(foldTimeInState(file.lines, 0), cyclesPerKHzClockTicks))

readPidStatFile(file) ==
    IF file.kind = "missing" THEN Error(READ_WARNING)
    ELSE IF file.kind = "garbled" THEN Error(READ_ERROR)
    ELSE Ok([comm |-> file.comm,
             state |-> file.state,
             majorFaults |-> file.majorFaults,
             cpuTimeMillis |-> (file.utime + file.stime) * mMillisPerClockTick,
             startTimeMillis |-> file.starttime * mMillisPerClockTick])

readPidStatusFile(file) ==
    IF file.kind = "missing" THEN Error(READ_WARNING)
    ELSE IF file.kind = "garbled" THEN Error(READ_ERROR)
    ELSE Ok([uid |-> file.uid, tgid |-> file.tgid])

readPidStatmFile(file) ==
    IF file.kind = "missing" THEN Error(READ_WARNING)
    ELSE IF file.kind = "garbled" THEN Error(READ_ERROR)
    ELSE Ok([rssPages |-> file.rssPages, sharedPages |-> file.sharedPages])

-----------------------------------------------------------------------------
(* Per-process assembly: UidProcStatsCollector::readProcessStatsLocked *)

\* The entries of a directory in the order readdir() lists them (ascending here:
\* the sums and the maps built from them do not depend on the order).
RECURSIVE readdir(_)
readdir(names) ==
    IF names = {} THEN <<>>
    ELSE LET n == CHOOSE x \in names : \A y \in names : x <= y
         IN <<n>> \o readdir(names \ {n})

\* ProcessStats initialised from the process-level stat (step 2 to 3 of the method).
initialProcessStats(pidStat) ==
    [comm |-> pidStat.comm,
     startTimeMillis |-> pidStat.startTimeMillis,
     cpuTimeMillis |-> pidStat.cpuTimeMillis,
     totalCpuCycles |-> 0,
     totalMajorFaults |-> pidStat.majorFaults,
     totalTasksCount |-> 1,
     ioBlockedTasksCount |-> IF pidStat.state = "D" THEN 1 ELSE 0,
     cpuCyclesByTid |-> EmptyMap,
     rssKb |-> 0, pssKb |-> 0, ussKb |-> 0, swapPssKb |-> 0]

\* readSmapsRollup: fills the memory fields whenever the rollup file is read, and
\* returns whether pss, rss and uss are all positive.
readSmapsRollup(smaps, processStats) ==
    IF ~mIsSmapsRollupSupported \/ smaps.kind # "ok"
    THEN [ret |-> FALSE, stats |-> processStats]
    ELSE [ret |-> smaps.pss > 0 /\ smaps.rss > 0 /\ smaps.uss > 0,
          stats |-> [processStats EXCEPT !.pssKb = smaps.pss, !.rssKb = smaps.rss,
                                         !.ussKb = smaps.uss, !.swapPssKb = smaps.swap_pss]]

\* The statm fallback of step 3: rssKb and ussKb from the page counts.
statmUsage(statm, processStats) ==
    LET rssKb == Wrap(statm.rssPages * mPageSizeKb)
        ussKb == Wrap(rssKb - Wrap(statm.sharedPages * mPageSizeKb))
    IN [processStats EXCEPT !.rssKb = rssKb,
                            !.ussKb = IF ussKb < rssKb THEN ussKb ELSE 0]

\* Step 3: the memory usage summary.  A result: ok with the stats, or an error.
readMemoryUsage(dir, processStats) ==
    IF ~mIsMemoryProfilingEnabled THEN Ok(processStats)
    ELSE LET rollup == readSmapsRollup(dir.smaps, processStats)
         IN IF rollup.ret THEN Ok(rollup.stats)
            ELSE LET result == readPidStatmFile(dir.statm)
                 IN IF ~result.ok
                    THEN IF result.code # READ_WARNING THEN Error(READ_ERROR)
                         ELSE Ok(rollup.stats)
                    ELSE Ok(statmUsage(result.value, rollup.stats))

\* Steps 4 and 5 for one entry of the task directory.
readThread(pid, tid, thread, processStats) ==
    LET tidStat == readPidStatFile(thread.stat)
        counted == IF tid = pid THEN processStats
                   ELSE [processStats EXCEPT
                            !.ioBlockedTasksCount =
                                @ + (IF tidStat.value.state = "D" THEN 1 ELSE 0),
                            !.totalTasksCount = @ + 1]
        tidCpuCycles == readTimeInStateFile(thread.tis)
    IN IF tid # pid /\ ~tidStat.ok
       THEN IF tidStat.code # READ_WARNING THEN Error(READ_ERROR) ELSE Ok(processStats)
       ELSE IF ~mIsTimeInStateEnabled THEN Ok(counted)
       ELSE IF ~tidCpuCycles.ok
       THEN IF tidCpuCycles.code # READ_WARNING THEN Error(READ_ERROR) ELSE Ok(counted)
       ELSE IF tidCpuCycles.value <= 0 THEN Ok(counted)
       ELSE Ok([counted EXCEPT
                   !.totalCpuCycles = addUint64(@, tidCpuCycles.value),
                   !.cpuCyclesByTid = [t \in DOMAIN @ \cup {tid} |->
                                          IF t = tid THEN tidCpuCycles.value ELSE @[t]]])

\* The loop over the task directory; a fatal read ends it.
RECURSIVE readThreads(_, _, _, _)
readThreads(pid, tids, task, processStats) ==
    IF tids = <<>> THEN Ok(processStats)
    ELSE LET r == readThread(pid, Head(tids), task[Head(tids)], processStats)
         IN IF ~r.ok THEN r ELSE readThreads(pid, Tail(tids), task, r.value)

\* Mutant: the UID is recovered from any entry of the PID, whatever its start time.
recoverUid_anyStartTime(pid, pidStat) ==
    LET known == {u \in DOMAIN mLatestStats :
                     pid \in DOMAIN mLatestStats[u].processStatsByPid}
    IN IF known = {} THEN [uid |-> InvalidUid, tgid |-> -1]
       ELSE [uid |-> CHOOSE u \in known : TRUE, tgid |-> pid]

\* Step 2: (uid, tgid) from the status file, or recovered from mLatestStats when
\* the file is gone and the PID is known with the same start time.
recoverUid(pid, pidStat) ==
    LET known == {u \in DOMAIN mLatestStats :
                     /\ pid \in DOMAIN mLatestStats[u].processStatsByPid
                     /\ mLatestStats[u].processStatsByPid[pid].startTimeMillis
                            = pidStat.startTimeMillis}
    IN IF known = {} THEN [uid |-> InvalidUid, tgid |-> -1]
       ELSE [uid |-> CHOOSE u \in known : TRUE, tgid |-> pid]

readProcessStatsLocked(pid, dir) ==
    LET pidStat == readPidStatFile(dir.stat)
        status == readPidStatusFile(dir.status)
        ids == IF status.ok THEN status.value ELSE recoverUid(pid, pidStat.value)
        memory == readMemoryUsage(dir, initialProcessStats(pidStat.value))
        threads == readThreads(pid, readdir(DOMAIN dir.task), dir.task, memory.value)
    IN IF ~pidStat.ok THEN Error(pidStat.code)
       ELSE IF ~status.ok /\ status.code # READ_WARNING THEN Error(READ_ERROR)
       ELSE IF ids.uid = InvalidUid \/ ids.tgid # pid THEN Error(READ_WARNING)
       ELSE IF ~memory.ok THEN memory
       ELSE IF ~threads.ok THEN threads
       ELSE Ok([uid |-> ids.uid, processStats |-> threads.value])

-----------------------------------------------------------------------------
(* Per-UID aggregation: UidProcStatsCollector::readUidProcStatsLocked *)

\* A value-initialised UidProcStats.
EmptyUidProcStats ==
    [cpuTimeMillis |-> 0, cpuCycles |-> 0, totalMajorFaults |-> 0,
     totalTasksCount |-> 0, ioBlockedTasksCount |-> 0,
     totalRssKb |-> 0, totalPssKb |-> 0, processStatsByPid |-> EmptyMap]

\* map[key] = value, inserting the key when it is new.
Put(map, key, value) ==
    [k \in DOMAIN map \cup {key} |-> IF k = key THEN value ELSE map[k]]

\* The body of the scan loop for a PID that was read: fold it into its UID's entry.
foldProcessStats(uidProcStatsByUid, uid, pid, processStats) ==
    LET uidProcStats == IF uid \in DOMAIN uidProcStatsByUid
                        THEN uidProcStatsByUid[uid] ELSE EmptyUidProcStats
    IN Put(uidProcStatsByUid, uid,
           [cpuTimeMillis |-> Wrap(uidProcStats.cpuTimeMillis + processStats.cpuTimeMillis),
            cpuCycles |-> addUint64(uidProcStats.cpuCycles, processStats.totalCpuCycles),
            totalMajorFaults |->
                Wrap(uidProcStats.totalMajorFaults + processStats.totalMajorFaults),
            totalTasksCount |-> uidProcStats.totalTasksCount + processStats.totalTasksCount,
            ioBlockedTasksCount |->
                uidProcStats.ioBlockedTasksCount + processStats.ioBlockedTasksCount,
            totalRssKb |-> Wrap(uidProcStats.totalRssKb + processStats.rssKb),
            totalPssKb |-> Wrap(uidProcStats.totalPssKb + processStats.pssKb),
            processStatsByPid |-> Put(uidProcStats.processStatsByPid, pid, processStats)])

\* Mutant: any failed read of a PID ends the scan, a warning too.
foldPidResult_warningAborts(uidProcStatsByUid, pid, result) ==
    IF ~result.ok THEN Error(READ_ERROR)
    ELSE Ok(foldProcessStats(uidProcStatsByUid, result.value.uid, pid,
                             result.value.processStats))

\* What the scan does with the result of one PID: abort, skip or fold.
\* A result: ok with the map so far, or the error that ends the scan.
foldPidResult(uidProcStatsByUid, pid, result) ==
    IF ~result.ok
    THEN IF result.code # READ_WARNING THEN Error(READ_ERROR) ELSE Ok(uidProcStatsByUid)
    ELSE Ok(foldProcessStats(uidProcStatsByUid, result.value.uid, pid,
                             result.value.processStats))

RECURSIVE scanPids(_, _, _)
scanPids(pids, procs, uidProcStatsByUid) ==
    IF pids = <<>> THEN Ok(uidProcStatsByUid)
    ELSE LET pid == Head(pids)
             r == foldPidResult(uidProcStatsByUid, pid,
                                readProcessStatsLocked(pid, procs[pid]))
         IN IF ~r.ok THEN r ELSE scanPids(Tail(pids), procs, r.value)

\* procfs: whether opendir(mPath) succeeds and the PID directories it lists.
readUidProcStatsLocked(procfs) ==
    IF ~procfs.rootOk THEN Error(READ_ERROR)
    ELSE scanPids(readdir(DOMAIN procfs.procs), procfs.procs, EmptyMap)

-----------------------------------------------------------------------------
(* Delta computation: the second half of UidProcStatsCollector::collect *)

\* Mutant: the subtraction is not guarded by previous <= current.
deltaThreadCpuCycles_unguarded(prevProcessStats, tid, threadCpuCycles) ==
    IF tid \in DOMAIN prevProcessStats.cpuCyclesByTid
    THEN Wrap(threadCpuCycles - prevProcessStats.cpuCyclesByTid[tid])
    ELSE threadCpuCycles

\* The delta of one thread's cycles against the previous ProcessStats of its PID.
deltaThreadCpuCycles(prevProcessStats, tid, threadCpuCycles) ==
    IF tid \in DOMAIN prevProcessStats.cpuCyclesByTid
       /\ prevProcessStats.cpuCyclesByTid[tid] <= threadCpuCycles
    THEN threadCpuCycles - prevProcessStats.cpuCyclesByTid[tid]
    ELSE threadCpuCycles

\* The saturating total of a map's values, added in the loop's order.
RECURSIVE sumCycles(_, _, _)
sumCycles(tids, cyclesByTid, total) ==
    IF tids = <<>> THEN total
    ELSE sumCycles(Tail(tids), cyclesByTid, addUint64(total, cyclesByTid[Head(tids)]))

\* Mutant: one guard, on cpuTimeMillis, for both counters.
deltaOfMatched_oneGuard(prevProcessStats, processStats) ==
    LET cyclesByTid == [tid \in DOMAIN processStats.cpuCyclesByTid |->
                           deltaThreadCpuCycles(prevProcessStats, tid,
                                                processStats.cpuCyclesByTid[tid])]
        guard == prevProcessStats.cpuTimeMillis <= processStats.cpuTimeMillis
    IN [processStats EXCEPT
           !.cpuTimeMillis = IF guard THEN @ - prevProcessStats.cpuTimeMillis ELSE @,
           !.totalMajorFaults = IF guard THEN Wrap(@ - prevProcessStats.totalMajorFaults)
                                ELSE @,
           !.cpuCyclesByTid = cyclesByTid,
           !.totalCpuCycles = sumCycles(readdir(DOMAIN cyclesByTid), cyclesByTid, 0)]

\* Mutant: totalCpuCycles is left at the current total instead of being recomputed.
deltaOfMatched_staleTotal(prevProcessStats, processStats) ==
    LET cyclesByTid == [tid \in DOMAIN processStats.cpuCyclesByTid |->
                           deltaThreadCpuCycles(prevProcessStats, tid,
                                                processStats.cpuCyclesByTid[tid])]
    IN [processStats EXCEPT
           !.cpuTimeMillis = IF prevProcessStats.cpuTimeMillis <= @
                             THEN @ - prevProcessStats.cpuTimeMillis ELSE @,
           !.totalMajorFaults = IF prevProcessStats.totalMajorFaults <= @
                                THEN @ - prevProcessStats.totalMajorFaults ELSE @,
           !.cpuCyclesByTid = cyclesByTid]

\* The matched branch: same pid and same startTimeMillis in the previous snapshot.
deltaOfMatched(prevProcessStats, processStats) ==
    LET cyclesByTid == [tid \in DOMAIN processStats.cpuCyclesByTid |->
                           deltaThreadCpuCycles(prevProcessStats, tid,
                                                processStats.cpuCyclesByTid[tid])]
    IN [processStats EXCEPT
           !.cpuTimeMillis = IF prevProcessStats.cpuTimeMillis <= @
                             THEN @ - prevProcessStats.cpuTimeMillis ELSE @,
           !.totalMajorFaults = IF prevProcessStats.totalMajorFaults <= @
                                THEN @ - prevProcessStats.totalMajorFaults ELSE @,
           !.cpuCyclesByTid = cyclesByTid,
           !.totalCpuCycles = sumCycles(readdir(DOMAIN cyclesByTid), cyclesByTid, 0)]

\* Mutant: the start times are not compared.
isSameProcess_pidOnly(prevUidStats, pid, processStats) ==
    pid \in DOMAIN prevUidStats.processStatsByPid

\* Whether the previous UidProcStats holds the PID with the same start time.
isSameProcess(prevUidStats, pid, processStats) ==
    /\ pid \in DOMAIN prevUidStats.processStatsByPid
    /\ prevUidStats.processStatsByPid[pid].startTimeMillis = processStats.startTimeMillis

deltaProcessStats(prevUidStats, pid, processStats) ==
    IF isSameProcess(prevUidStats, pid, processStats)
    THEN deltaOfMatched(prevUidStats.processStatsByPid[pid], processStats)
    ELSE processStats

\* The loop over the current processes of a UID known to the previous snapshot.
RECURSIVE deltaUidLoop(_, _, _, _)
deltaUidLoop(pids, prevUidStats, currUidStats, deltaUidStats) ==
    IF pids = <<>> THEN deltaUidStats
    ELSE LET pid == Head(pids)
             delta == deltaProcessStats(prevUidStats, pid,
                                        currUidStats.processStatsByPid[pid])
         IN deltaUidLoop(Tail(pids), prevUidStats, currUidStats,
                [deltaUidStats EXCEPT
                    !.cpuTimeMillis = Wrap(@ + delta.cpuTimeMillis),
                    !.cpuCycles = addUint64(@, delta.totalCpuCycles),
                    !.totalMajorFaults = Wrap(@ + delta.totalMajorFaults),
                    !.processStatsByPid = Put(@, pid, delta)])

\* Mutant: a UID new to the snapshot gets the aggregates but not its processes.
deltaUidStats_newUidWithoutProcesses(latestStats, uid, currUidStats) ==
    IF uid \notin DOMAIN latestStats
    THEN [currUidStats EXCEPT !.processStatsByPid = EmptyMap]
    ELSE deltaUidLoop(readdir(DOMAIN currUidStats.processStatsByPid),
                      latestStats[uid], currUidStats,
                      [EmptyUidProcStats EXCEPT
                          !.totalTasksCount = currUidStats.totalTasksCount,
                          !.ioBlockedTasksCount = currUidStats.ioBlockedTasksCount,
                          !.totalRssKb = currUidStats.totalRssKb,
                          !.totalPssKb = currUidStats.totalPssKb])

deltaUidStats(latestStats, uid, currUidStats) ==
    IF uid \notin DOMAIN latestStats THEN currUidStats
    ELSE deltaUidLoop(readdir(DOMAIN currUidStats.processStatsByPid),
                      latestStats[uid], currUidStats,
                      [EmptyUidProcStats EXCEPT
                          !.totalTasksCount = currUidStats.totalTasksCount,
                          !.ioBlockedTasksCount = currUidStats.ioBlockedTasksCount,
                          !.totalRssKb = currUidStats.totalRssKb,
                          !.totalPssKb = currUidStats.totalPssKb])

\* mDeltaStats as collect() rebuilds it from mLatestStats and the new snapshot.
computeDeltaStats(latestStats, uidProcStatsByUid) ==
    [uid \in DOMAIN uidProcStatsByUid |->
        deltaUidStats(latestStats, uid, uidProcStatsByUid[uid])]

-----------------------------------------------------------------------------
(* The procfs contents a scan can meet.  The product of every outcome of every    *)
(* file is out of reach, so the contents of a PID directory are drawn from        *)
(* families that each vary some files of a baseline process: its counters, its    *)
(* threads, the files that fail, its memory files.  PID 1 takes every family, the *)
(* other PIDs a small one.                                                        *)

PIDs == 1..MaxPid
ExtraTids == (MaxPid + 1)..(MaxPid + MaxThreads)
UIDs == {10, 11}
HalfWord == 2^(WordBits - 1)

Missing == [kind |-> "missing"]
Garbled == [kind |-> "garbled"]
StatOk(starttime, utime, majorFaults, state) ==
    [kind |-> "ok", comm |-> "comm", state |-> state, majorFaults |-> majorFaults,
     utime |-> utime, stime |-> 1, starttime |-> starttime]
StatusOk(uid, tgid) == [kind |-> "ok", uid |-> uid, tgid |-> tgid]
StatmOk(rssPages, sharedPages) ==
    [kind |-> "ok", rssPages |-> rssPages, sharedPages |-> sharedPages]
SmapsOk(pss, rss, uss, swap_pss) ==
    [kind |-> "ok", pss |-> pss, rss |-> rss, uss |-> uss, swap_pss |-> swap_pss]
Line(freqKHz, clockTicks) == [freqKHz |-> freqKHz, clockTicks |-> clockTicks]
TisOk(lines) == [kind |-> "ok", lines |-> lines]
Thread(stat, tis) == [stat |-> stat, tis |-> tis]
Dir(stat, status, smaps, statm, task) ==
    [stat |-> stat, status |-> status, smaps |-> smaps, statm |-> statm, task |-> task]

\* time_in_state files of 0, 2, 4 and (clamped) kMaxUint64 cycles at WordBits = 3.
TisFiles == {TisOk(<<>>), TisOk(<<Line(1, 1)>>), TisOk(<<Line(1, 2)>>),
             TisOk(<<Line(1, 1), Line(1, 2)>>)}
TisReads == TisFiles \cup {Missing, Garbled}

BaseStat == StatOk(1, 0, 1, "S")
BaseTis == TisOk(<<Line(1, 1)>>)
MainOnly(pid, stat, tis) == [t \in {pid} |-> Thread(stat, tis)]
WithThread(pid, stat, tis, tid, thread) ==
    [t \in {pid, tid} |-> IF t = pid THEN Thread(stat, tis) ELSE thread]

\* Counters: the start time, the CPU time and the major faults vary.
CounterDirs(pid) ==
    {Dir(StatOk(starttime, utime, majorFaults, "S"), StatusOk(10, pid), Missing, Missing,
         MainOnly(pid, BaseStat, BaseTis)) :
        starttime \in {1, 2}, utime \in {0, 1}, majorFaults \in {1, HalfWord}}

\* Owner: the process runs under the other UID.
OwnerDirs(pid) ==
    {Dir(StatOk(starttime, 0, 1, "S"), StatusOk(11, pid), Missing, Missing,
         MainOnly(pid, BaseStat, BaseTis)) : starttime \in {1, 2}}

\* Threads: the main thread's time_in_state varies, or there is one more thread.
ExtraThreads ==
    {Thread(Missing, BaseTis), Thread(Garbled, BaseTis),
     Thread(StatOk(1, 0, 0, "D"), BaseTis)}
    \cup {Thread(StatOk(1, 0, 0, "S"), tis) :
            tis \in {Missing, Garbled, TisOk(<<Line(1, 2)>>),
                     TisOk(<<Line(1, 1), Line(1, 2)>>)}}
TaskDirs(pid) ==
    {MainOnly(pid, BaseStat, tis) : tis \in TisReads}
    \cup {WithThread(pid, BaseStat, BaseTis, tid, thread) :
            tid \in ExtraTids, thread \in ExtraThreads}
    \cup {EmptyMap}
ThreadDirs(pid) ==
    {Dir(BaseStat, StatusOk(10, pid), Missing, Missing, task) : task \in TaskDirs(pid)}

\* Failures of the two process-level files, a thread's PID directory, no valid UID.
FaultDirs(pid) ==
    {Dir(stat, StatusOk(10, pid), Missing, Missing, MainOnly(pid, BaseStat, BaseTis)) :
        stat \in {Missing, Garbled}}
    \cup {Dir(BaseStat, status, Missing, Missing, MainOnly(pid, BaseStat, BaseTis)) :
            status \in {Garbled, StatusOk(10, pid + 1), StatusOk(InvalidUid, pid)}}
    \cup {Dir(StatOk(starttime, 0, 1, "S"), Missing, Missing, Missing,
              MainOnly(pid, BaseStat, BaseTis)) : starttime \in {1, 2}}

\* Memory: the smaps rollup and statm vary.
MemoryDirs(pid) ==
    {Dir(BaseStat, StatusOk(10, pid), smaps, statm, MainOnly(pid, BaseStat, BaseTis)) :
        smaps \in {Missing, SmapsOk(HalfWord, HalfWord, 1, 0), SmapsOk(0, 2, 1, 1)},
        statm \in {Missing, StatmOk(2, 1)}}
    \cup {Dir(BaseStat, StatusOk(10, pid), Missing, statm,
              MainOnly(pid, BaseStat, BaseTis)) :
            statm \in {Garbled, StatmOk(1, 0), StatmOk(1, 2)}}

\* The small family of the other PIDs.
PlainDirs(pid) ==
    {Dir(StatOk(1, level.utime, level.majorFaults, "S"), StatusOk(uid, pid),
         SmapsOk(HalfWord, HalfWord, 1, 0), Missing,
         MainOnly(pid, BaseStat, level.tis)) :
        uid \in UIDs,
        level \in {[utime |-> 0, majorFaults |-> 1, tis |-> BaseTis],
                   [utime |-> 1, majorFaults |-> HalfWord,
                    tis |-> TisOk(<<Line(1, 1), Line(1, 2)>>)]}}
    \cup {Dir(Garbled, StatusOk(10, pid), Missing, Missing,
              MainOnly(pid, BaseStat, BaseTis))}

PidDirs(pid) ==
    IF pid = PID_FOR_INIT
    THEN CounterDirs(pid) \cup OwnerDirs(pid) \cup ThreadDirs(pid) \cup FaultDirs(pid)
         \cup MemoryDirs(pid)
    ELSE PlainDirs(pid)

AllDirs == UNION {PidDirs(pid) : pid \in PIDs}

\* A listing of the root directory: some PIDs, each with the contents of its directory.
ProcListings ==
    UNION {{procs \in [listed -> AllDirs] : \A pid \in listed : procs[pid] \in PidDirs(pid)} :
              listed \in SUBSET PIDs}

Procfs ==
    {[read |-> TRUE, rootOk |-> FALSE, procs |-> EmptyMap]}
    \cup {[read |-> TRUE, rootOk |-> TRUE, procs |-> procs] : procs \in ProcListings}

\* scanned, when collect() returned before opening the root directory.
NotRead == [read |-> FALSE, rootOk |-> FALSE, procs |-> EmptyMap]

\* What one init() finds: the outcome of access(R_OK) on the five paths of
\* PID_FOR_INIT and, when time_in_state is accessible, the outcome of reading it.
Probe(pidStat, tidStat, pidStatus, statm, tidTimeInStateAccessible, tidTimeInState) ==
    [called |-> TRUE, pidStat |-> pidStat, tidStat |-> tidStat, pidStatus |-> pidStatus,
     statm |-> statm, tidTimeInStateAccessible |-> tidTimeInStateAccessible,
     tidTimeInState |-> tidTimeInState]

\* probe, before the first init().
NotProbed ==
    [called |-> FALSE, pidStat |-> FALSE, tidStat |-> FALSE, pidStatus |-> FALSE,
     statm |-> FALSE, tidTimeInStateAccessible |-> FALSE, tidTimeInState |-> Missing]

\* statLine, when no stat line is being parsed.
NoStatLine ==
    [written |-> FALSE, comm |-> <<>>, state |-> <<>>, majorFaults |-> 0, utime |-> 0,
     stime |-> 0, starttime |-> 0]

\* statusRead, before readPidStatusFile has returned.
StatusNotRead == [done |-> FALSE, ok |-> FALSE, code |-> -1, uid |-> -1, tgid |-> -1]

\* parsedStat, before parsePidStatLine has returned.
NotParsed ==
    [done |-> FALSE, ok |-> FALSE, comm |-> <<>>, state |-> <<>>, majorFaults |-> 0,
     cpuTimeMillis |-> 0, startTimeMillis |-> 0]

\* Every outcome of the probe: any subset of the four required paths accessible,
\* time_in_state inaccessible or accessible with any of the read outcomes.
AllProbes ==
    {Probe(pidStat, tidStat, pidStatus, statm, FALSE, Missing) :
        pidStat \in BOOLEAN, tidStat \in BOOLEAN, pidStatus \in BOOLEAN, statm \in BOOLEAN}
    \cup UNION {{Probe(pidStat, tidStat, pidStatus, statm, TRUE, tidTimeInState) :
                    pidStat \in BOOLEAN, tidStat \in BOOLEAN, pidStatus \in BOOLEAN,
                    statm \in BOOLEAN} : tidTimeInState \in TisReads}

\* The outcomes the scans are checked with: everything accessible, with
\* time_in_state well-formed or not, and neither stat nor time_in_state accessible.
InitProbes ==
    {Probe(TRUE, TRUE, TRUE, TRUE, TRUE, BaseTis),
     Probe(TRUE, TRUE, TRUE, TRUE, TRUE, Garbled),
     Probe(FALSE, TRUE, TRUE, TRUE, FALSE, Missing)}

\* The procfs contents the probes are checked with: the root directory
\* unreadable, or PID_FOR_INIT alone with either CPU time.
ProbedProcfs ==
    {[read |-> TRUE, rootOk |-> FALSE, procs |-> EmptyMap]}
    \cup {[read |-> TRUE, rootOk |-> TRUE,
           procs |-> [pid \in {PID_FOR_INIT} |->
                        Dir(StatOk(1, utime, 1, "S"), StatusOk(10, pid), Missing, Missing,
                            MainOnly(pid, BaseStat, BaseTis))]] : utime \in {0, 1}}

-----------------------------------------------------------------------------
(* The collector *)

\* The state after the constructor.  mIsEnabled and mIsTimeInStateEnabled are not
\* initialised by it: either value.
InitCollector ==
    /\ mIsEnabled \in BOOLEAN
    /\ mIsTimeInStateEnabled \in BOOLEAN
    /\ mIsMemoryProfilingEnabled \in BOOLEAN
    /\ mIsSmapsRollupSupported \in BOOLEAN
    /\ mLatestStats = EmptyMap
    /\ mDeltaStats = EmptyMap
    /\ prevStats = EmptyMap
    /\ scanned = NotRead
    /\ collectResult = "none"
    /\ numCollects = 0
    /\ probe = NotProbed

\* No time_in_state file is being read.
InitTimeInStateIdle ==
    /\ oneTenthCpuCycles = 0
    /\ trueOneTenthCycles = 0
    /\ lastLine = [freqKHz |-> 0, clockTicks |-> 0, product |-> 0, before |-> 0, sum |-> 0]
    /\ numLines = 0
    /\ tisPc = "lines"
    /\ tisCycles = 0

\* No stat line is being parsed.
InitStatLineIdle ==
    /\ statLine = NoStatLine
    /\ parsedStat = NotParsed

\* No status file is being read.
InitStatusIdle ==
    /\ statusText = <<>>
    /\ statusRead = StatusNotRead

\* No text is being parsed.
InitTextIdle == InitStatLineIdle /\ InitStatusIdle

\* The mutex is free and no thread is inside init() or collect().
InitThreadsIdle ==
    /\ mMutex = "free"
    /\ initPc = "idle"
    /\ collectPc = "idle"

Init == InitCollector /\ InitTimeInStateIdle /\ InitTextIdle /\ InitThreadsIdle

\* Mutant: the statm / smaps rollup requirement of memory profiling is dropped.
isEnabledAfter_withoutStatm(found) ==
    /\ found.pidStat
    /\ found.tidStat
    /\ found.pidStatus

\* mIsEnabled as init() sets it from the accessibility of the required paths.
isEnabledAfter(found) ==
    /\ found.pidStat
    /\ found.tidStat
    /\ found.pidStatus
    /\ (mIsMemoryProfilingEnabled => (found.statm \/ mIsSmapsRollupSupported))

\* mIsTimeInStateEnabled as init() leaves it.
isTimeInStateEnabledAfter(found) ==
    IF found.tidTimeInStateAccessible
    THEN LET tidCpuCycles == readTimeInStateFile(found.tidTimeInState)
         IN tidCpuCycles.ok /\ tidCpuCycles.value > 0
    ELSE mIsTimeInStateEnabled

\* init(): the capability probe on PID_FOR_INIT's files, with one of the given
\* outcomes.
initFrom(probes) ==
    /\ numCollects < MaxCollects
    /\ \E found \in probes :
          /\ mIsEnabled' = isEnabledAfter(found)
          /\ mIsTimeInStateEnabled' = isTimeInStateEnabledAfter(found)
          /\ probe' = found
    /\ UNCHANGED <<mIsMemoryProfilingEnabled, mIsSmapsRollupSupported,
                   mLatestStats, mDeltaStats, prevStats, scanned, collectResult,
                   numCollects>>
    /\ UNCHANGED tisVars
    /\ UNCHANGED textVars
    /\ UNCHANGED threadVars

init == initFrom(InitProbes)

\* Mutant: mDeltaStats.clear() moved before the scan, so an error loses the delta.
returnError_afterClear(procfs) ==
    /\ collectResult' = "error"
    /\ scanned' = procfs
    /\ mDeltaStats' = EmptyMap
    /\ UNCHANGED <<mLatestStats, prevStats>>

\* collect() returning an error: nothing is published.
returnError(procfs) ==
    /\ collectResult' = "error"
    /\ scanned' = procfs
    /\ UNCHANGED <<mLatestStats, mDeltaStats, prevStats>>

\* collect() past the scan: the delta is rebuilt and the new snapshot stored.
publish(procfs, uidProcStatsByUid) ==
    /\ mDeltaStats' = computeDeltaStats(mLatestStats, uidProcStatsByUid)
    /\ mLatestStats' = uidProcStatsByUid
    /\ prevStats' = mLatestStats
    /\ scanned' = procfs
    /\ collectResult' = "ok"

\* collect(), meeting one of the given procfs contents.
collectFrom(contents) ==
    /\ numCollects < MaxCollects
    /\ numCollects' = numCollects + 1
    /\ UNCHANGED <<mIsEnabled, mIsTimeInStateEnabled, mIsMemoryProfilingEnabled,
                   mIsSmapsRollupSupported, probe>>
    /\ UNCHANGED tisVars
    /\ UNCHANGED textVars
    /\ UNCHANGED threadVars
    /\ IF ~mIsEnabled THEN returnError(NotRead)
       ELSE \E procfs \in contents :
              LET uidProcStatsByUid == readUidProcStatsLocked(procfs)
              IN IF ~uidProcStatsByUid.ok THEN returnError(procfs)
                 ELSE publish(procfs, uidProcStatsByUid.value)

collect == collectFrom(Procfs)

Next == init \/ collect

Spec == Init /\ [][Next]_vars

-----------------------------------------------------------------------------
(* init() with every outcome of the probe, between scans of a small procfs *)

initProbe == initFrom(AllProbes)

collectProbed == collectFrom(ProbedProcfs)

NextProbe == initProbe \/ collectProbed

SpecProbe == Init /\ [][NextProbe]_vars

-----------------------------------------------------------------------------
(* readTimeInStateFile, line by line, on any file of parseable body lines *)

\* One pass of the loop over a body line "<freqKHz> <clockTicks>".
foldLine ==
    /\ tisPc = "lines"
    /\ numLines < MaxLines
    /\ \E freqKHz, clockTicks \in 0..kMaxUint64 :
         LET product == mul(freqKHz, clockTicks)
         IN /\ oneTenthCpuCycles' = addUint64(oneTenthCpuCycles, product)
            /\ trueOneTenthCycles' = trueOneTenthCycles + freqKHz * clockTicks
            /\ lastLine' = [freqKHz |-> freqKHz, clockTicks |-> clockTicks,
                            product |-> product, before |-> oneTenthCpuCycles,
                            sum |-> addUint64(oneTenthCpuCycles, product)]
    /\ numLines' = numLines + 1
    /\ UNCHANGED <<tisPc, tisCycles>>
    /\ UNCHANGED collectorVars
    /\ UNCHANGED textVars
    /\ UNCHANGED threadVars

\* The return after the last line: the total scaled to cycles.
returnCycles ==
    /\ tisPc = "lines"
    /\ tisCycles' = mul(oneTenthCpuCycles, cyclesPerKHzClockTicks)
    /\ tisPc' = "done"
    /\ UNCHANGED <<oneTenthCpuCycles, trueOneTenthCycles, lastLine, numLines>>
    /\ UNCHANGED collectorVars
    /\ UNCHANGED textVars
    /\ UNCHANGED threadVars

InitTimeInState == Init /\ ~mIsEnabled /\ ~mIsTimeInStateEnabled
                        /\ ~mIsMemoryProfilingEnabled /\ ~mIsSmapsRollupSupported

NextTimeInState == foldLine \/ returnCycles

SpecTimeInState == InitTimeInState /\ [][NextTimeInState]_vars

-----------------------------------------------------------------------------
(* init() and collect() called from two threads, statement by statement: the *)
(* steps of one call interleave with the steps of the other, and a thread     *)
(* waits at Mutex::Autolock while the other holds mMutex.                     *)

\* init(), lines 368-387: the access() calls, made before the lock is taken.
initAccess ==
    /\ initPc = "idle"
    /\ numCollects < MaxCollects
    /\ \E found \in AllProbes : probe' = found
    /\ initPc' = "lock"
    /\ UNCHANGED <<mIsEnabled, mIsTimeInStateEnabled, mIsMemoryProfilingEnabled,
                   mIsSmapsRollupSupported, mLatestStats, mDeltaStats, prevStats,
                   scanned, collectResult, numCollects, mMutex, collectPc>>
    /\ UNCHANGED tisVars
    /\ UNCHANGED textVars

\* init(), line 389: Mutex::Autolock.
initLock ==
    /\ initPc = "lock"
    /\ mMutex = "free"
    /\ mMutex' = "init"
    /\ initPc' = "assign"
    /\ UNCHANGED <<collectPc>>
    /\ UNCHANGED collectorVars
    /\ UNCHANGED tisVars
    /\ UNCHANGED textVars

\* init(), line 390: mIsEnabled is assigned from the three required paths.
initAssign ==
    /\ initPc = "assign"
    /\ mIsEnabled' = (probe.pidStat /\ probe.tidStat /\ probe.pidStatus)
    /\ initPc' = "memory"
    /\ UNCHANGED <<mIsTimeInStateEnabled, mIsMemoryProfilingEnabled,
                   mIsSmapsRollupSupported, mLatestStats, mDeltaStats, prevStats,
                   scanned, collectResult, numCollects, probe, mMutex, collectPc>>
    /\ UNCHANGED tisVars
    /\ UNCHANGED textVars

\* init(), lines 391-393: under memory profiling mIsEnabled is and-ed with the
\* statm / smaps rollup requirement.
initMemory ==
    /\ initPc = "memory"
    /\ mIsEnabled' = IF mIsMemoryProfilingEnabled
                     THEN mIsEnabled /\ (probe.statm \/ mIsSmapsRollupSupported)
                     ELSE mIsEnabled
    /\ initPc' = "timeInState"
    /\ UNCHANGED <<mIsTimeInStateEnabled, mIsMemoryProfilingEnabled,
                   mIsSmapsRollupSupported, mLatestStats, mDeltaStats, prevStats,
                   scanned, collectResult, numCollects, probe, mMutex, collectPc>>
    /\ UNCHANGED tisVars
    /\ UNCHANGED textVars

\* init(), lines 395-423: the time_in_state flag, the logging, and the return,
\* which releases the lock.
initReturn ==
    /\ initPc = "timeInState"
    /\ mIsTimeInStateEnabled' = isTimeInStateEnabledAfter(probe)
    /\ mMutex' = "free"
    /\ initPc' = "idle"
    /\ UNCHANGED <<mIsEnabled, mIsMemoryProfilingEnabled,
                   mIsSmapsRollupSupported, mLatestStats, mDeltaStats, prevStats,
                   scanned, collectResult, numCollects, probe, collectPc>>
    /\ UNCHANGED tisVars
    /\ UNCHANGED textVars

\* collect(), lines 426-428: mIsEnabled is tested before the lock is taken.
collectCheck ==
    /\ collectPc = "idle"
    /\ numCollects < MaxCollects
    /\ IF ~mIsEnabled
       THEN /\ returnError(NotRead)
            /\ numCollects' = numCollects + 1
            /\ collectPc' = "idle"
       ELSE /\ collectPc' = "lock"
            /\ UNCHANGED <<mLatestStats, mDeltaStats, prevStats, scanned, collectResult,
                           numCollects>>
    /\ UNCHANGED <<mIsEnabled, mIsTimeInStateEnabled, mIsMemoryProfilingEnabled,
                   mIsSmapsRollupSupported, probe, mMutex, initPc>>
    /\ UNCHANGED tisVars
    /\ UNCHANGED textVars

\* collect(), line 430: Mutex::Autolock.
collectLock ==
    /\ collectPc = "lock"
    /\ mMutex = "free"
    /\ mMutex' = "collect"
    /\ collectPc' = "scan"
    /\ UNCHANGED <<initPc>>
    /\ UNCHANGED collectorVars
    /\ UNCHANGED tisVars
    /\ UNCHANGED textVars

\* collect(), lines 431-487: the scan, the delta and the replacement of the
\* snapshots, under the lock, which the return releases.
collectLocked ==
    /\ collectPc = "scan"
    /\ \E procfs \in ProbedProcfs :
          LET uidProcStatsByUid == readUidProcStatsLocked(procfs)
          IN IF ~uidProcStatsByUid.ok THEN returnError(procfs)
             ELSE publish(procfs, uidProcStatsByUid.value)
    /\ numCollects' = numCollects + 1
    /\ mMutex' = "free"
    /\ collectPc' = "idle"
    /\ UNCHANGED <<mIsEnabled, mIsTimeInStateEnabled, mIsMemoryProfilingEnabled,
                   mIsSmapsRollupSupported, probe, initPc>>
    /\ UNCHANGED tisVars
    /\ UNCHANGED textVars

NextThreads ==
    \/ initAccess \/ initLock \/ initAssign \/ initMemory \/ initReturn
    \/ collectCheck \/ collectLock \/ collectLocked

SpecThreads == Init /\ [][NextThreads]_vars

-----------------------------------------------------------------------------
(* parsePidStatLine on the text of a stat line.  A string is a sequence of *)
(* characters, a character a string of length one.                         *)

Digits == <<"0", "1", "2", "3", "4", "5", "6", "7", "8", "9">>
IsDigit(c) == \E i \in 1..Len(Digits) : Digits[i] = c
DigitValue(c) == (CHOOSE i \in 1..Len(Digits) : Digits[i] = c) - 1

RECURSIVE Decimal(_)
Decimal(field) ==
    IF field = <<>> THEN 0
    ELSE 10 * Decimal(SubSeq(field, 1, Len(field) - 1)) + DigitValue(field[Len(field)])

\* android::base::ParseUint / ParseInt on a field of the line.  Only unsigned
\* decimal numerals are written into the lines, any other field fails to parse.
ParseUint(field) ==
    [ok |-> field # <<>> /\ \A i \in 1..Len(field) : IsDigit(field[i]),
     value |-> IF field # <<>> /\ \A i \in 1..Len(field) : IsDigit(field[i])
               THEN Decimal(field) ELSE 0]

\* android::base::Split: the pieces between the occurrences of any of the
\* delimiter characters, empty pieces included.
RECURSIVE Split(_, _)
Split(str, delimiters) ==
    IF \A i \in 1..Len(str) : str[i] \notin delimiters THEN <<str>>
    ELSE LET found == CHOOSE i \in 1..Len(str) :
                          /\ str[i] \in delimiters
                          /\ \A j \in 1..(i - 1) : str[j] \notin delimiters
         IN <<SubSeq(str, 1, found - 1)>> \o Split(SubSeq(str, found + 1, Len(str)), delimiters)

EndsWith(str, c) == str # <<>> /\ str[Len(str)] = c

\* fields[i] with the zero-based index of the source.
FieldAt(fields, i) == fields[i + 1]

\* The loop that collects the comm: fields are appended, a space between them,
\* up to the first field that ends with a closing bracket.
RECURSIVE commLoop(_, _, _)
commLoop(fields, i, comm) ==
    IF ~(i < Len(fields)) THEN [comm |-> comm, commEndOffset |-> 0]
    ELSE IF EndsWith(FieldAt(fields, i), ")")
         THEN [comm |-> comm \o FieldAt(fields, i), commEndOffset |-> i - 1]
         ELSE commLoop(fields, i + 1, comm \o FieldAt(fields, i) \o <<" ">>)

\* parsePidStatLine: the return value and the PidStat it filled in.  The line
\* always has a second field, so comm.front() is never taken of an empty string.
parsePidStatLine(line) ==
    LET fields == Split(line, {" "})
        loop == commLoop(fields, 1, <<>>)
        comm == loop.comm
        commEndOffset == loop.commEndOffset
        failed == [ok |-> FALSE, comm |-> <<>>, state |-> <<>>, majorFaults |-> 0,
                   cpuTimeMillis |-> 0, startTimeMillis |-> 0]
    IN IF comm = <<>> \/ comm[1] # "(" \/ comm[Len(comm)] # ")" THEN failed
       ELSE IF Len(fields) < 22 + commEndOffset THEN failed
       ELSE LET majorFaults == ParseUint(FieldAt(fields, 11 + commEndOffset))
                cpuTime == ParseUint(FieldAt(fields, 13 + commEndOffset))
                systemCpuTime == ParseUint(FieldAt(fields, 14 + commEndOffset))
                startTime == ParseUint(FieldAt(fields, 21 + commEndOffset))
            IN IF ~majorFaults.ok \/ ~cpuTime.ok \/ ~systemCpuTime.ok \/ ~startTime.ok
               THEN failed
               ELSE [ok |-> TRUE,
                     comm |-> SubSeq(comm, 2, Len(comm) - 1),
                     state |-> FieldAt(fields, 2 + commEndOffset),
                     majorFaults |-> majorFaults.value,
                     cpuTimeMillis |-> cpuTime.value + systemCpuTime.value,
                     startTimeMillis |-> startTime.value]

\* The characters a comm is written with.
CommChars == {"a", " ", "(", ")"}

Comms == UNION {[1..n -> CommChars] : n \in 0..MaxCommLen}

\* The fields a stat line is written from; the fields that are not read are 0.
StatLines ==
    [written : {TRUE}, comm : Comms, state : {<<"S">>, <<"D">>}, majorFaults : {1, 2},
     utime : {3}, stime : {4}, starttime : {5, 6}]

\* The numeral of a number below ten.
Numeral(n) == <<Digits[n + 1]>>

\* The line of /proc/PID/stat: "<pid> (<comm>) <state> <field 3> ... <field 21>".
StatLineText(from) ==
    LET after == [i \in 3..21 |->
                     IF i = 11 THEN Numeral(from.majorFaults)
                     ELSE IF i = 13 THEN Numeral(from.utime)
                     ELSE IF i = 14 THEN Numeral(from.stime)
                     ELSE IF i = 21 THEN Numeral(from.starttime)
                     ELSE Numeral(0)]
        RECURSIVE Tail22(_)
        Tail22(i) == IF i > 21 THEN <<>> ELSE <<" ">> \o after[i] \o Tail22(i + 1)
    IN Numeral(PID_FOR_INIT) \o <<" ", "(">> \o from.comm \o <<")", " ">> \o from.state
       \o Tail22(3)

\* parsePidStatLine applied to the line.
parseStatLine ==
    /\ statLine.written
    /\ ~parsedStat.done
    /\ LET result == parsePidStatLine(StatLineText(statLine))
       IN parsedStat' = [done |-> TRUE, ok |-> result.ok, comm |-> result.comm,
                         state |-> result.state, majorFaults |-> result.majorFaults,
                         cpuTimeMillis |-> result.cpuTimeMillis,
                         startTimeMillis |-> result.startTimeMillis]
    /\ UNCHANGED <<statLine, statusText, statusRead>>
    /\ UNCHANGED collectorVars
    /\ UNCHANGED tisVars
    /\ UNCHANGED threadVars

InitStatLine ==
    /\ InitCollector
    /\ ~mIsEnabled /\ ~mIsTimeInStateEnabled
    /\ ~mIsMemoryProfilingEnabled /\ ~mIsSmapsRollupSupported
    /\ InitTimeInStateIdle
    /\ statLine \in StatLines
    /\ parsedStat = NotParsed
    /\ InitStatusIdle
    /\ InitThreadsIdle

NextStatLine == parseStatLine

SpecStatLine == InitStatLine /\ [][NextStatLine]_vars

-----------------------------------------------------------------------------
(* readPidStatusFile on the text of a status file *)

\* std::string_view::find(tag) != npos.
Contains(str, tag) ==
    \E i \in 1..(Len(str) - Len(tag) + 1) : SubSeq(str, i, i + Len(tag) - 1) = tag

\* The loop of getLinesWithTags from the zero-based offset base.  Erasing from
\* notFoundTags leaves the iterator at the tag that follows, so one pass over
\* the tags removes every tag the line contains.
RECURSIVE getLinesLoop(_, _, _, _)
getLinesLoop(buffer, base, notFoundTags, result) ==
    IF notFoundTags = <<>> THEN result
    ELSE LET newlines == {i \in (base + 1)..Len(buffer) : buffer[i] = "\n"}
             npos == newlines = {}
             found == IF npos THEN Len(buffer)
                      ELSE (CHOOSE i \in newlines : \A j \in newlines : i <= j) - 1
             sub == SubSeq(buffer, base + 1, found)
             isNotInLine(tag) == ~Contains(sub, tag)
             remaining == SelectSeq(notFoundTags, isNotInLine)
             hasTag == remaining # notFoundTags
             kept == IF hasTag THEN Append(result, sub) ELSE result
         IN IF npos THEN kept ELSE getLinesLoop(buffer, found + 1, remaining, kept)

getLinesWithTags(buffer, tags) == getLinesLoop(buffer, 0, tags, <<>>)

Whitespace == {" ", "\t", "\n", "\r"}

\* android::base::Trim: the string without its leading and trailing whitespace.
RECURSIVE Trim(_)
Trim(str) ==
    IF str = <<>> THEN str
    ELSE IF str[1] \in Whitespace THEN Trim(SubSeq(str, 2, Len(str)))
    ELSE IF str[Len(str)] \in Whitespace THEN Trim(SubSeq(str, 1, Len(str) - 1))
    ELSE str

\* The loop of readKeyValueFile over the lines kept.  Every line of the files
\* read here holds the delimiter, so substr() is never called past the end.
RECURSIVE keyValueLoop(_, _, _, _)
keyValueLoop(lines, i, delimiter, contents) ==
    IF ~(i < Len(lines)) THEN Ok(contents)
    ELSE LET line == FieldAt(lines, i)
             elements == Split(line, {delimiter[k] : k \in 1..Len(delimiter)})
             key == elements[1]
             value == Trim(SubSeq(line, Len(key) + Len(delimiter) + 1, Len(line)))
         IN IF line = <<>> THEN keyValueLoop(lines, i + 1, delimiter, contents)
            ELSE IF Len(elements) < 2 THEN Error(READ_ERROR)
            ELSE IF key \in DOMAIN contents THEN Error(READ_ERROR)
            ELSE keyValueLoop(lines, i + 1, delimiter, Put(contents, key, value))

\* readKeyValueFile on a file that ReadFileToString read into buffer.
readKeyValueFile(buffer, delimiter, tags) ==
    keyValueLoop(getLinesWithTags(buffer, tags), 0, delimiter, EmptyMap)

UidTag == <<"U", "i", "d">>
TgidTag == <<"T", "g", "i", "d">>
KeyValueDelimiter == <<":", "\t">>

\* readPidStatusFile on a file that ReadFileToString read into buffer.
readPidStatusText(buffer) ==
    LET result == readKeyValueFile(buffer, KeyValueDelimiter, <<UidTag, TgidTag>>)
        contents == result.value
        uid == ParseUint(Split(contents[UidTag], {"\t"})[1])
        tgid == ParseUint(contents[TgidTag])
    IN IF ~result.ok THEN Error(result.code)
       ELSE IF contents = EmptyMap THEN Error(READ_ERROR)
       ELSE IF UidTag \notin DOMAIN contents \/ ~uid.ok THEN Error(READ_ERROR)
       ELSE IF TgidTag \notin DOMAIN contents \/ ~tgid.ok THEN Error(READ_ERROR)
       ELSE Ok([uid |-> uid.value, tgid |-> tgid.value])

\* The numeral of a number below a hundred.
Numeral2(n) == IF n < 10 THEN Numeral(n) ELSE Numeral(n \div 10) \o Numeral(n % 10)

\* Lines of a status file, as the fields they are written from.
NameLine(name) == [key |-> "Name", name |-> name, ids |-> <<>>]
UidLine(real, effective) == [key |-> "Uid", name |-> <<>>, ids |-> <<real, effective>>]
TgidLine(tgid) == [key |-> "Tgid", name |-> <<>>, ids |-> <<tgid>>]

\* The text of a line: "<key>:\t<value>", the numbers of a value tab-separated.
StatusLineText(line) ==
    IF line.key = "Name" THEN <<"N", "a", "m", "e">> \o KeyValueDelimiter \o line.name
    ELSE IF line.key = "Uid"
         THEN UidTag \o KeyValueDelimiter \o Numeral2(line.ids[1]) \o <<"\t">>
              \o Numeral2(line.ids[2])
    ELSE TgidTag \o KeyValueDelimiter \o Numeral2(line.ids[1])

\* The text of the file: every line ends with a newline.
RECURSIVE StatusFileText(_)
StatusFileText(lines) ==
    IF lines = <<>> THEN <<>>
    ELSE StatusLineText(Head(lines)) \o <<"\n">> \o StatusFileText(Tail(lines))

NameLines ==
    {NameLine(name) : name \in {<<"s", "h">>, UidTag, TgidTag, <<"a">> \o UidTag}}
UidLines == {UidLine(10, 11), UidLine(11, 10)}
TgidLines == {TgidLine(1), TgidLine(2)}

\* Status files of one Uid line and one Tgid line, in either order, with at
\* most MaxNameLines Name lines anywhere among them.
StatusTexts ==
    {lines \in UNION {[1..n -> NameLines \cup UidLines \cup TgidLines] :
                         n \in 2..(2 + MaxNameLines)} :
        /\ Cardinality({i \in DOMAIN lines : lines[i].key = "Uid"}) = 1
        /\ Cardinality({i \in DOMAIN lines : lines[i].key = "Tgid"}) = 1}

\* readPidStatusFile applied to the file.
readStatusText ==
    /\ statusText # <<>>
    /\ ~statusRead.done
    /\ LET result == readPidStatusText(StatusFileText(statusText))
       IN statusRead' = [done |-> TRUE, ok |-> result.ok, code |-> result.code,
                         uid |-> IF result.ok THEN result.value.uid ELSE -1,
                         tgid |-> IF result.ok THEN result.value.tgid ELSE -1]
    /\ UNCHANGED <<statLine, parsedStat, statusText>>
    /\ UNCHANGED collectorVars
    /\ UNCHANGED tisVars
    /\ UNCHANGED threadVars

InitStatus ==
    /\ InitCollector
    /\ ~mIsEnabled /\ ~mIsTimeInStateEnabled
    /\ ~mIsMemoryProfilingEnabled /\ ~mIsSmapsRollupSupported
    /\ InitTimeInStateIdle
    /\ InitStatLineIdle
    /\ statusText \in StatusTexts
    /\ statusRead = StatusNotRead
    /\ InitThreadsIdle

NextStatus == readStatusText

SpecStatus == InitStatus /\ [][NextStatus]_vars

-----------------------------------------------------------------------------
(* Properties *)

\* The (uid, pid) pairs of a snapshot.
Processes(stats) ==
    {<<uid, pid>> : uid \in DOMAIN stats, pid \in PIDs} \cap
    UNION {{<<uid, pid>> : pid \in DOMAIN stats[uid].processStatsByPid} : uid \in DOMAIN stats}

ProcessAt(stats, up) == stats[up[1]].processStatsByPid[up[2]]

\* Pairs held by both the previous and the latest snapshot, split by start time.
Known == Processes(prevStats) \cap Processes(mLatestStats)
Matched == {up \in Known : ProcessAt(prevStats, up).startTimeMillis
                               = ProcessAt(mLatestStats, up).startTimeMillis}
Reused == Known \ Matched

\* A step of collect().
CollectStep == numCollects' = numCollects + 1

\* C1: whenever collect() returns an error, whatever the cause and whatever calls
\* came before, mLatestStats and mDeltaStats are what they were before the call.
C1_ErrorKeepsSnapshots ==
    [][(CollectStep /\ collectResult' = "error")
          => (mLatestStats' = mLatestStats /\ mDeltaStats' = mDeltaStats)]_vars

\* A failed collect() (a fatal read under an opened root directory) after a
\* successful one that published processes.
C1_Witness ==
    /\ collectResult = "error"
    /\ scanned.read /\ scanned.rootOk
    /\ Processes(mLatestStats) # {}
    /\ Processes(mDeltaStats) # {}

\* C2: a PID held under the same UID by the previous and the latest snapshot with
\* different start times has its latest ProcessStats, verbatim, as its delta.
C2_PidReuseIsolation ==
    \A up \in Reused : ProcessAt(mDeltaStats, up) = ProcessAt(mLatestStats, up)

\* A reused PID whose counters are not above the previous owner's, with cycles.
C2_Witness ==
    \E up \in Reused :
        /\ ProcessAt(prevStats, up).cpuTimeMillis <= ProcessAt(mLatestStats, up).cpuTimeMillis
        /\ ProcessAt(prevStats, up).totalMajorFaults > 0
        /\ ProcessAt(mLatestStats, up).totalCpuCycles > 0
        /\ ProcessAt(prevStats, up).totalCpuCycles > 0

\* current - previous when previous <= current, else current.
GuardedDelta(previous, current) ==
    IF previous <= current THEN current - previous ELSE current

\* C3: for a PID matched by UID, pid and start time, the deltas of cpuTimeMillis and
\* of totalMajorFaults are each current - previous when previous <= current and the
\* current value otherwise, independently of each other, and lie in 0..current.
C3_CounterDeltas ==
    \A up \in Matched :
        LET prev == ProcessAt(prevStats, up)
            curr == ProcessAt(mLatestStats, up)
            delta == ProcessAt(mDeltaStats, up)
        IN /\ delta.cpuTimeMillis = GuardedDelta(prev.cpuTimeMillis, curr.cpuTimeMillis)
           /\ delta.totalMajorFaults
                  = GuardedDelta(prev.totalMajorFaults, curr.totalMajorFaults)
           /\ delta.cpuTimeMillis \in 0..curr.cpuTimeMillis
           /\ delta.totalMajorFaults \in 0..curr.totalMajorFaults

\* A matched PID whose CPU time was reset while its major faults grew.
C3_Witness ==
    \E up \in Matched :
        /\ ProcessAt(mLatestStats, up).cpuTimeMillis < ProcessAt(prevStats, up).cpuTimeMillis
        /\ ProcessAt(mLatestStats, up).totalMajorFaults
               > ProcessAt(prevStats, up).totalMajorFaults
        /\ ProcessAt(mDeltaStats, up).totalMajorFaults
               < ProcessAt(mLatestStats, up).totalMajorFaults

\* C4: for a matched PID the delta's cpuCyclesByTid has exactly the TIDs of the
\* latest snapshot; a TID's value is current - previous when the previous map has
\* the TID with previous <= current, and the current cycles otherwise.
C4_ThreadCycleDeltas ==
    \A up \in Matched :
        LET prev == ProcessAt(prevStats, up).cpuCyclesByTid
            curr == ProcessAt(mLatestStats, up).cpuCyclesByTid
            delta == ProcessAt(mDeltaStats, up).cpuCyclesByTid
        IN /\ DOMAIN delta = DOMAIN curr
           /\ \A tid \in DOMAIN curr :
                 delta[tid] = IF tid \in DOMAIN prev
                              THEN GuardedDelta(prev[tid], curr[tid]) ELSE curr[tid]

\* A matched PID that lost a thread and kept one whose cycles grew.
C4_Witness ==
    \E up \in Matched :
        LET prev == ProcessAt(prevStats, up).cpuCyclesByTid
            curr == ProcessAt(mLatestStats, up).cpuCyclesByTid
        IN /\ DOMAIN prev \ DOMAIN curr # {}
           /\ \E tid \in DOMAIN curr \cap DOMAIN prev : 0 < prev[tid] /\ prev[tid] < curr[tid]


\* The sum of f[x] over the elements x of a finite set, in unbounded arithmetic.
RECURSIVE SumOver(_, _)
SumOver(set, f) ==
    IF set = {} THEN 0
    ELSE LET x == CHOOSE y \in set : TRUE
         IN f[x] + SumOver(set \ {x}, f)

Min(a, b) == IF a <= b THEN a ELSE b

\* The value of a uint64_t counter that saturates.
Saturated(n) == Min(n, kMaxUint64)

\* C5: every counter of the delta snapshot is at most the same counter of the
\* latest snapshot: per TID, per process and per UID.
C5_DeltaBoundedByLatest ==
    /\ \A up \in Processes(mDeltaStats) :
          LET curr == ProcessAt(mLatestStats, up)
              delta == ProcessAt(mDeltaStats, up)
          IN /\ delta.cpuTimeMillis <= curr.cpuTimeMillis
             /\ delta.totalMajorFaults <= curr.totalMajorFaults
             /\ delta.totalCpuCycles <= curr.totalCpuCycles
             /\ \A tid \in DOMAIN delta.cpuCyclesByTid :
                   delta.cpuCyclesByTid[tid] <= curr.cpuCyclesByTid[tid]
    /\ \A uid \in DOMAIN mDeltaStats :
          /\ mDeltaStats[uid].cpuTimeMillis <= mLatestStats[uid].cpuTimeMillis
          /\ mDeltaStats[uid].cpuCycles <= mLatestStats[uid].cpuCycles
          /\ mDeltaStats[uid].totalMajorFaults <= mLatestStats[uid].totalMajorFaults

\* The total of a ProcessStats is the saturated sum of its per-thread cycles.
TotalIsSaturatedSum(processStats) ==
    processStats.totalCpuCycles
        = Saturated(SumOver(DOMAIN processStats.cpuCyclesByTid, processStats.cpuCyclesByTid))

\* C6: every ProcessStats of the latest and of the delta snapshot has
\* totalCpuCycles equal to the saturated sum of its cpuCyclesByTid values (0 when
\* the map is empty).
C6_TotalCyclesIsSumOfThreads ==
    /\ \A up \in Processes(mLatestStats) : TotalIsSaturatedSum(ProcessAt(mLatestStats, up))
    /\ \A up \in Processes(mDeltaStats) : TotalIsSaturatedSum(ProcessAt(mDeltaStats, up))

\* A matched PID of two threads whose latest total is clamped and whose delta
\* total, recomputed, is below it.
C6_Witness ==
    \E up \in Matched :
        LET curr == ProcessAt(mLatestStats, up)
            delta == ProcessAt(mDeltaStats, up)
        IN /\ Cardinality(DOMAIN curr.cpuCyclesByTid) = 2
           /\ SumOver(DOMAIN curr.cpuCyclesByTid, curr.cpuCyclesByTid) > kMaxUint64
           /\ 0 < delta.totalCpuCycles
           /\ delta.totalCpuCycles < curr.totalCpuCycles

\* The aggregates of a UidProcStats are the saturated sums over its processes.
CountersAreSaturatedSums(uidStats) ==
    LET pids == DOMAIN uidStats.processStatsByPid
        cpuTime == [pid \in pids |-> uidStats.processStatsByPid[pid].cpuTimeMillis]
        cycles == [pid \in pids |-> uidStats.processStatsByPid[pid].totalCpuCycles]
        faults == [pid \in pids |-> uidStats.processStatsByPid[pid].totalMajorFaults]
    IN /\ uidStats.cpuTimeMillis = Saturated(SumOver(pids, cpuTime))
       /\ uidStats.cpuCycles = Saturated(SumOver(pids, cycles))
       /\ uidStats.totalMajorFaults = Saturated(SumOver(pids, faults))

MemoryAndTasksAreSums(uidStats) ==
    LET pids == DOMAIN uidStats.processStatsByPid
        rss == [pid \in pids |-> uidStats.processStatsByPid[pid].rssKb]
        pss == [pid \in pids |-> uidStats.processStatsByPid[pid].pssKb]
        tasks == [pid \in pids |-> uidStats.processStatsByPid[pid].totalTasksCount]
        blocked == [pid \in pids |-> uidStats.processStatsByPid[pid].ioBlockedTasksCount]
    IN /\ uidStats.totalRssKb = Saturated(SumOver(pids, rss))
       /\ uidStats.totalPssKb = Saturated(SumOver(pids, pss))
       /\ uidStats.totalTasksCount = SumOver(pids, tasks)
       /\ uidStats.ioBlockedTasksCount = SumOver(pids, blocked)

\* C7: in the latest and in the delta snapshot each UID's cpuTimeMillis, cpuCycles
\* and totalMajorFaults is the saturated sum of the field over its processes; in
\* the latest snapshot totalRssKb and totalPssKb likewise, and the two task
\* counts are the exact sums.
C7_UidFoldConsistency ==
    /\ \A uid \in DOMAIN mLatestStats :
          /\ CountersAreSaturatedSums(mLatestStats[uid])
          /\ MemoryAndTasksAreSums(mLatestStats[uid])
    /\ \A uid \in DOMAIN mDeltaStats : CountersAreSaturatedSums(mDeltaStats[uid])

\* C8: addUint64 returns min(l + r, kMaxUint64), mul returns min(l * r, kMaxUint64),
\* and the cycles returned for a time_in_state file are min(true value, kMaxUint64).
C8_Saturation ==
    /\ lastLine.product = Saturated(lastLine.freqKHz * lastLine.clockTicks)
    /\ lastLine.sum = Saturated(lastLine.before + lastLine.product)
    /\ tisPc = "done"
          => tisCycles = Saturated(trueOneTenthCycles * cyclesPerKHzClockTicks)

\* C9: a UID of the latest snapshot that the previous snapshot does not hold has
\* its latest UidProcStats, in full, as its delta; after the first successful
\* collect() the delta snapshot is the latest snapshot.
C9_NewUidDeltaIsLatest ==
    /\ \A uid \in DOMAIN mLatestStats \ DOMAIN prevStats :
          mDeltaStats[uid] = mLatestStats[uid]
    /\ prevStats = EmptyMap => mDeltaStats = mLatestStats

\* A new UID with processes, beside a UID held before whose delta is not its latest.
C9_Witness ==
    /\ \E uid \in DOMAIN mLatestStats \ DOMAIN prevStats :
          mLatestStats[uid].processStatsByPid # EmptyMap
    /\ \E uid \in DOMAIN mLatestStats \cap DOMAIN prevStats :
          mDeltaStats[uid] # mLatestStats[uid]

\* How the assembly of a listed PID ends, read off its files in the state before
\* the scan: the UID is recoverable, the statm file is read, a read is fatal.
Recoverable(pid, dir) ==
    \E up \in Processes(mLatestStats) :
        /\ up[2] = pid
        /\ ProcessAt(mLatestStats, up).startTimeMillis
               = dir.stat.starttime * mMillisPerClockTick

Identified(pid, dir) ==
    /\ dir.stat.kind = "ok"
    /\ \/ dir.status.kind = "ok" /\ dir.status.uid # InvalidUid /\ dir.status.tgid = pid
       \/ dir.status.kind = "missing" /\ Recoverable(pid, dir)

EndsInWarning(pid, dir) ==
    \/ dir.stat.kind = "missing"
    \/ dir.stat.kind = "ok" /\ dir.status.kind # "garbled" /\ ~Identified(pid, dir)

StatmIsRead(dir) ==
    /\ mIsMemoryProfilingEnabled
    /\ ~(/\ mIsSmapsRollupSupported
         /\ dir.smaps.kind = "ok"
         /\ dir.smaps.pss > 0 /\ dir.smaps.rss > 0 /\ dir.smaps.uss > 0)

EndsInParseError(pid, dir) ==
    \/ dir.stat.kind = "garbled"
    \/ dir.stat.kind = "ok" /\ dir.status.kind = "garbled"
    \/ /\ Identified(pid, dir)
       /\ \/ StatmIsRead(dir) /\ dir.statm.kind = "garbled"
          \/ \E tid \in DOMAIN dir.task :
                \/ tid # pid /\ dir.task[tid].stat.kind = "garbled"
                \/ /\ mIsTimeInStateEnabled
                   /\ tid = pid \/ dir.task[tid].stat.kind = "ok"
                   /\ dir.task[tid].tis.kind = "garbled"

\* C10: a scan in which the assembly of some PID ends in a PARSE-level error makes
\* collect() return an error; otherwise collect() succeeds and publishes exactly
\* the listed PIDs whose assembly does not end in WARN.
C10_WarnSkipsParseAborts ==
    [][(CollectStep /\ scanned'.read /\ scanned'.rootOk)
          => LET procs == scanned'.procs
                 fatal == {pid \in DOMAIN procs : EndsInParseError(pid, procs[pid])}
                 skipped == {pid \in DOMAIN procs : EndsInWarning(pid, procs[pid])}
             IN IF fatal # {} THEN collectResult' = "error"
                ELSE /\ collectResult' = "ok"
                     /\ {up[2] : up \in Processes(mLatestStats')} = DOMAIN procs \ skipped
       ]_vars

\* A successful collect() that skipped a PID and published one listed after it.
C10_Witness ==
    /\ collectResult = "ok"
    /\ \E skipped \in DOMAIN scanned.procs, up \in Processes(mLatestStats) :
          /\ skipped < up[2]
          /\ skipped \notin {q[2] : q \in Processes(mLatestStats)}

\* The paths collect() depends on were all readable at the probe.
RequiredReadable(found) ==
    /\ found.pidStat /\ found.tidStat /\ found.pidStatus
    /\ (mIsMemoryProfilingEnabled => (found.statm \/ mIsSmapsRollupSupported))

\* C11: a collect() that follows an init() which found a required path unreadable
\* returns an error without reading procfs and leaves both snapshots alone; a
\* collect() that follows an init() which found them all readable reads procfs.
C11_ProbeDecidesCollect ==
    [][(probe.called /\ numCollects' = numCollects + 1) =>
          IF RequiredReadable(probe)
          THEN scanned'.read
          ELSE /\ collectResult' = "error"
               /\ scanned' = NotRead
               /\ mLatestStats' = mLatestStats
               /\ mDeltaStats' = mDeltaStats]_vars

\* A collect() published a snapshot, then an init() with memory profiling on found
\* only statm unreadable, smaps rollup being unsupported, and the next collect()
\* was rejected with the snapshot still in place.
C11_Witness ==
    /\ probe.called
    /\ probe.pidStat /\ probe.tidStat /\ probe.pidStatus /\ ~probe.statm
    /\ mIsMemoryProfilingEnabled /\ ~mIsSmapsRollupSupported
    /\ numCollects = 2
    /\ collectResult = "error"
    /\ scanned = NotRead
    /\ mLatestStats # EmptyMap

\* C12: the line written from a comm and its fields parses, and the parse gives
\* back the comm, the state, the major faults, utime + stime and the start time
\* it was written from.
C12_CommRoundTrip ==
    parsedStat.done =>
        /\ parsedStat.ok
        /\ parsedStat.comm = statLine.comm
        /\ parsedStat.state = statLine.state
        /\ parsedStat.majorFaults = statLine.majorFaults
        /\ parsedStat.cpuTimeMillis = statLine.utime + statLine.stime
        /\ parsedStat.startTimeMillis = statLine.starttime

\* The listed PIDs whose stat was read and whose status file was gone.
StatusGone(procs) ==
    {pid \in DOMAIN procs : procs[pid].stat.kind = "ok" /\ procs[pid].status.kind = "missing"}

\* The snapshot holds the PID under the UID with the start time of the stat file.
HeldWithStartTime(stats, uid, pid, dir) ==
    /\ <<uid, pid>> \in Processes(stats)
    /\ ProcessAt(stats, <<uid, pid>>).startTimeMillis = dir.stat.starttime * mMillisPerClockTick

\* C13: after a successful collect(), a PID whose stat was read and whose status
\* file was gone is in the new snapshot under a UID exactly when the snapshot
\* before the call held it under that UID with the same start time; and a
\* collect() fails only when the assembly of some PID ends in a PARSE-level
\* error, which for such a PID takes a recovered UID.
C13_UidRecovery ==
    [][(CollectStep /\ scanned'.read /\ scanned'.rootOk)
          => LET procs == scanned'.procs
             IN /\ collectResult' = "ok" =>
                      \A pid \in StatusGone(procs) :
                          \A uid \in DOMAIN mLatestStats \cup DOMAIN mLatestStats' :
                              (<<uid, pid>> \in Processes(mLatestStats'))
                                  <=> HeldWithStartTime(mLatestStats, uid, pid, procs[pid])
                /\ collectResult' = "error" =>
                      \E pid \in DOMAIN procs : EndsInParseError(pid, procs[pid])
       ]_vars

\* A PID whose status file was gone was published under the UID, other than the
\* first, that the previous snapshot held it under.
C13_Witness ==
    /\ collectResult = "ok"
    /\ \E pid \in StatusGone(scanned.procs) :
          /\ <<11, pid>> \in Matched
          /\ HeldWithStartTime(prevStats, 11, pid, scanned.procs[pid])

\* C14: collect() replaces the snapshots only in a state where mIsEnabled is
\* true, whatever steps of init() ran since collect() tested the flag.
C14_EnabledCheckInCriticalSection ==
    [][(CollectStep /\ collectResult' = "ok" /\ mMutex = "collect") => mIsEnabled]_vars

\* C15: a process published from the statm fallback has rssKb = rss pages *
\* page size and ussKb = rssKb - shared pages * page size when the shared size
\* is at most rssKb (rssKb itself when there are no shared pages), 0 otherwise.
C15_StatmUss ==
    collectResult = "ok" =>
        \A up \in Processes(mLatestStats) :
            LET dir == scanned.procs[up[2]]
                rssKb == Wrap(dir.statm.rssPages * mPageSizeKb)
                sharedKb == Wrap(dir.statm.sharedPages * mPageSizeKb)
            IN (StatmIsRead(dir) /\ dir.statm.kind = "ok") =>
                  /\ ProcessAt(mLatestStats, up).rssKb = rssKb
                  /\ ProcessAt(mLatestStats, up).ussKb
                        = IF sharedKb <= rssKb THEN rssKb - sharedKb ELSE 0

\* The probe found time_in_state readable, with a positive cycle count.
PositiveTimeInState(found) ==
    /\ found.tidTimeInStateAccessible
    /\ readTimeInStateFile(found.tidTimeInState).ok
    /\ readTimeInStateFile(found.tidTimeInState).value > 0

\* C16: after every init(), mIsTimeInStateEnabled is true exactly when that
\* init() found time_in_state readable with a positive cycle count.
C16_TimeInStateFlagFollowsProbe ==
    probe.called => (mIsTimeInStateEnabled <=> PositiveTimeInState(probe))

\* The line of the file with the key.
LineOfKey(lines, key) == lines[CHOOSE i \in DOMAIN lines : lines[i].key = key]

\* C17: a status file with one Uid line and one Tgid line is read successfully
\* and gives the first number of the Uid line and the number of the Tgid line,
\* whatever its Name lines hold.
C17_StatusTags ==
    statusRead.done =>
        /\ statusRead.ok
        /\ statusRead.uid = LineOfKey(statusText, "Uid").ids[1]
        /\ statusRead.tgid = LineOfKey(statusText, "Tgid").ids[1]

====
